---- MODULE Spec2Model ----
(***************************************************************************)
(* A model of the VibeVoice text-to-speech caching proxy:                  *)
(*   - backend/main.py: the request pipeline of POST /synthesize           *)
(*     (check_rate_limit -> generate_cache_key -> get_cached_audio ->      *)
(*     synthesize_speech -> cache_audio), the clear-cache endpoint and     *)
(*     the lifespan that creates the two global client handles;            *)
(*   - backend/cache_manager.py: CacheManager over the same kind of        *)
(*     key-value backend.                                                  *)
(* The key-value backend (Redis) is one map from keys to entries with a    *)
(* remaining time-to-live, plus the statistics hash.  A backend call       *)
(* raises exactly when the backend is unreachable at the time of the call. *)
(***************************************************************************)
EXTENDS Integers, Sequences, FiniteSets, TLC

(***************************************************************************)
(* Bounds of the model.                                                    *)
(***************************************************************************)
\* request slots that serve POST /synthesize concurrently (each is reused)
NumReqs == 2
\* the configured per-minute limit (environment variable, default 60)
RATE_LIMIT_PER_MINUTE == 2
\* clock ticks in the 60-second rate-limit window
WindowTicks == 2
\* clock ticks in the cache time-to-live (CACHE_TTL_HOURS * 3600 seconds)
TtlTicks == 2

\* value of the Retry-After header of a 429 response
RetryAfter == 60

\* a rate-limit counter is not incremented past this value in the model
MaxCount == RATE_LIMIT_PER_MINUTE + 1

Reqs == 1..NumReqs
Clients == {"ip1", "ip2"}

\* Optional values: None is Python's None or an absent key, Some(x) a value
None == <<>>
Some(x) == <<x>>
\* remaining time-to-live of a key that has no expiry set (Redis TTL -1)
NoExpiry == -1

(***************************************************************************)
(* Synthesis parameters and payloads.  Strings are sequences of            *)
(* characters; speed and pitch are floats with one decimal, held in        *)
(* tenths.                                                                 *)
(***************************************************************************)
MkParams(t, v, s, p, l) ==
    [text |-> t, voice |-> v, speed |-> s, pitch |-> p, language |-> l]

ParamSet ==
    { MkParams(<<"a">>, <<"b", ":", "c">>, 10, 0, <<"j">>),
      MkParams(<<"a", ":", "b">>, <<"c">>, 10, 0, <<"j">>),
      MkParams(<<"x">>, <<"c">>, 10, 0, <<"j">>) }

\* what the provider can return: audio_content is a bytes field, possibly empty
Payloads == { <<>>, <<1>>, <<2>> }

(***************************************************************************)
(* Key derivation (main.py generate_cache_key).                            *)
(***************************************************************************)
Digit(d) == CASE d = 0 -> "0" [] d = 1 -> "1" [] d = 2 -> "2" [] d = 3 -> "3"
              [] d = 4 -> "4" [] d = 5 -> "5" [] d = 6 -> "6" [] d = 7 -> "7"
              [] d = 8 -> "8" [] d = 9 -> "9"

RECURSIVE NatStr(_)
NatStr(n) == IF n < 10 THEN <<Digit(n)>> ELSE NatStr(n \div 10) \o <<Digit(n % 10)>>

\* Python's str() of a float with one decimal: 1.0 -> "1.0", -2.5 -> "-2.5"
FloatStr(tenths) ==
    LET a == IF tenths < 0 THEN -tenths ELSE tenths
    IN  (IF tenths < 0 THEN <<"-">> ELSE <<>>)
        \o NatStr(a \div 10) \o <<".">> \o <<Digit(a % 10)>>

\* f"{request.text}:{request.voice}:{request.speed}:{request.pitch}:{request.language}"
KeyData(p) ==
    p.text \o <<":">> \o p.voice \o <<":">> \o FloatStr(p.speed) \o <<":">>
    \o FloatStr(p.pitch) \o <<":">> \o p.language

\* SHA-256 taken as collision-free: the digest stands for the string hashed
Sha256Hex(s) == <<"sha256", s>>

generate_cache_key(p) == Sha256Hex(KeyData(p))

(***************************************************************************)
(* Backend keys.                                                           *)
(***************************************************************************)
AudioKey(digest) == <<"audio", digest>>
\* one counter for all clients
RateKey_OneForAll(client) == <<"rate_limit", "">>

\* line 76: key = f"rate_limit:{client_ip}"
RateKey(client) == <<"rate_limit", client>>

AudioKeys == { AudioKey(generate_cache_key(p)) : p \in ParamSet }
RateKeys == { RateKey(c) : c \in Clients }
AllKeys == AudioKeys \cup RateKeys

IsAudioKey(k) == k[1] = "audio"

Entry(v, t) == [val |-> v, ttl |-> t]

(***************************************************************************)
(* The state.                                                              *)
(***************************************************************************)
VARIABLES
    phase,          \* "boot" before the lifespan has run, then "serving"
    redis_client,   \* main.py global: TRUE when the backend handle exists
    tts_client,     \* main.py global: TRUE when the provider client exists
    reachable,      \* environment: the backend answers calls
    store,          \* backend: key -> None or Some(Entry(value, ttl))
    stats,          \* backend: the cache:stats hash of CacheManager
    req,            \* per request slot: position, locals, response, history
    win,            \* history: per client, the current rate-limit window
    lastMiss,       \* history: per parameters, body of the last MISS stored
    clr,            \* the clear-cache endpoint: position, locals, response
    cm,             \* CacheManager: the last operation and what it returned
    written,        \* history: per key, the last CacheManager.set and its age
    derived,        \* history: the key derivations made, as (function, input, key)
    engine,         \* tts_engine.py TTSEngine.client: TRUE when the client exists
    ops             \* the last call of health, cache stats or TTSEngine and its answer

vars == <<phase, redis_client, tts_client, reachable, store, stats, req, win,
          lastMiss, clr, cm, written, derived, engine, ops>>

(***************************************************************************)
(* Backend primitives, as the Redis commands the code calls behave.        *)
(***************************************************************************)
RedisGet(st, k) == IF st[k] = None THEN None ELSE Some(st[k][1].val)

\* a get that restarts the expiry of the entry it reads
RedisAfterGet_Touch(st, k) ==
    IF st[k] = None THEN st ELSE [st EXCEPT ![k] = Some(Entry(st[k][1].val, TtlTicks))]

\* the backend after a get: the command reads and changes nothing
RedisAfterGet(st, k) == st

RedisIncrValue(st, k) == IF st[k] = None THEN 1 ELSE st[k][1].val + 1

RedisIncr(st, k) ==
    [st EXCEPT ![k] = IF st[k] = None
                      THEN Some(Entry(1, NoExpiry))
                      ELSE Some(Entry(st[k][1].val + 1, st[k][1].ttl))]

RedisExpire(st, k, t) ==
    IF st[k] = None THEN st ELSE [st EXCEPT ![k] = Some(Entry(st[k][1].val, t))]

RedisSetex(st, k, t, v) == [st EXCEPT ![k] = Some(Entry(v, t))]

RedisKeys(st, ks) == { k \in ks : st[k] # None }

RedisDelete(st, ks) == [k \in DOMAIN st |-> IF k \in ks THEN None ELSE st[k]]

\* one clock tick: every expiry comes one tick closer, a key at its last tick goes
RedisTick(st) ==
    [k \in DOMAIN st |->
        IF st[k] = None THEN None
        ELSE IF st[k][1].ttl = NoExpiry THEN st[k]
        ELSE IF st[k][1].ttl <= 1 THEN None
        ELSE Some(Entry(st[k][1].val, st[k][1].ttl - 1))]

(***************************************************************************)
(* Requests and responses.                                                 *)
(***************************************************************************)
NoResponse == [status |-> 0, xcache |-> "", body |-> None, retry_after |-> 0]

NoParams == MkParams(<<>>, <<>>, 0, 0, <<>>)

IdleReq ==
    [pc |-> "idle", client |-> "", params |-> NoParams, count |-> 0,
     audio_content |-> None, resp |-> NoResponse,
     \* history of the request, read by the properties only
     rl |-> None,            \* what check_rate_limit returned
     ord |-> 0,              \* ordinal of its increment in the client's window
     rlClean |-> FALSE,      \* no rate-limit call of the client has failed so far
     rlErr |-> FALSE,        \* check_rate_limit had no handle or a call raised
     expect |-> None,        \* body of the last stored MISS, at the cache probe
     nRate |-> 0,            \* calls of check_rate_limit
     nRead |-> 0, nProv |-> 0, nWrite |-> 0,   \* calls issued
     passed |-> {},          \* requests waiting for the provider since it started
     someOk |-> FALSE,       \* some backend call of the request succeeded
     provFailed |-> FALSE,   \* the provider call raised
     provUnavail |-> FALSE,  \* there was no provider client
     writeFailed |-> FALSE]  \* the cache write raised

\* lines 250-254: HTTPException(429, "Rate limit exceeded", Retry-After: 60)
RateLimitedResponse ==
    [status |-> 429, xcache |-> "", body |-> None, retry_after |-> RetryAfter]

\* lines 262-269 and 283-290: Response(content, headers X-Cache)
AudioResponse(content, xcache) ==
    [status |-> 200, xcache |-> xcache, body |-> Some(content), retry_after |-> 0]

\* a handler that answers a failed synthesis with 502
SynthesisFailedResponse_BadGateway(raised) ==
    [status |-> 502, xcache |-> "", body |-> None, retry_after |-> 0]

\* lines 274-278: any exception of synthesize_speech becomes HTTPException(500)
SynthesisFailedResponse(raised) ==
    [status |-> 500, xcache |-> "", body |-> None, retry_after |-> 0]

\* an off-by-one limit: count < RATE_LIMIT_PER_MINUTE
Allowed_OffByOne(count) == count < RATE_LIMIT_PER_MINUTE

\* line 81: return count <= RATE_LIMIT_PER_MINUTE
Allowed(count) == count <= RATE_LIMIT_PER_MINUTE

\* a limiter that refuses the request when the backend call raises
check_rate_limit_on_error_Closed == FALSE

\* lines 82-83: except Exception: return True
check_rate_limit_on_error == TRUE

\* a limiter that refuses the request when there is no backend handle
check_rate_limit_no_client_Closed == FALSE

\* lines 73-74: if not redis_client: return True
check_rate_limit_no_client == TRUE

\* lines 94-95: except Exception: return None
get_cached_audio_on_error == None

\* line 261: "if cached_audio:", the truth value of Optional[bytes]
Truthy(data) == data # None /\ Len(data[1]) > 0

\* a cache_audio that lets the backend error escape
cache_audio_propagates == FALSE

\* lines 109-110: except Exception: pass (TRUE: the error stays inside cache_audio)
cache_audio_swallows == TRUE

\* lines 115-119: the status synthesize_speech raises with no provider client
ProviderUnavailableStatus == 503

(***************************************************************************)
(* History of a client's rate limiting, kept by the clock and not by the   *)
(* backend: calls is the number of check_rate_limit calls that incremented *)
(* the counter in the current window, age the clock ticks since the call   *)
(* that opened the window returned (-1 before that, and while no window is *)
(* open); the window is over WindowTicks ticks after that.  clean is TRUE  *)
(* as long as no rate-limit call of the client has failed; granted is the  *)
(* number of those calls that have returned true.                          *)
(***************************************************************************)
NoWindow == [calls |-> 0, granted |-> 0, clean |-> TRUE, age |-> 0 - 1]

TickWindow(w) ==
    IF w.age < 0 THEN w
    ELSE IF w.age + 1 >= WindowTicks
    THEN [w EXCEPT !.calls = 0, !.granted = 0, !.age = 0 - 1]
    ELSE [w EXCEPT !.age = @ + 1]

SameKey(p, q) == generate_cache_key(p) = generate_cache_key(q)

\* the parameters whose entry is among the keys ks
ParamsOf(ks) == { p \in ParamSet : AudioKey(generate_cache_key(p)) \in ks }

Forget(lm, ps) == [p \in ParamSet |-> IF p \in ps THEN None ELSE lm[p]]

\* a handler whose provider call runs on the event loop itself
provider_call_in_thread_Inline == FALSE

\* line 273: asyncio.to_thread runs synthesize_speech in a worker thread
provider_call_in_thread == TRUE

\* the event loop is free to run a step of a handler: no provider call is
\* occupying it
LoopFree == provider_call_in_thread \/ \A q \in Reqs : req[q].pc # "synth"

\* no response is waiting to be handed over
Quiet == clr.pc # "done" /\ \A r \in Reqs : req[r].pc # "done"

(***************************************************************************)
(* Startup and the environment.                                            *)
(***************************************************************************)
\* a startup that keeps the handle although the ping raised
lifespan_redis_client_KeepOnError(pingOk) == TRUE

\* lines 153-159: redis_client is the handle, or None when the ping raised
lifespan_redis_client(pingOk) == pingOk

\* main.py lifespan: the handle exists iff the ping at startup succeeded
Lifespan ==
    /\ Quiet
    /\ phase = "boot"
    /\ phase' = "serving"
    /\ redis_client' = lifespan_redis_client(reachable)
    /\ tts_client' \in BOOLEAN
    /\ UNCHANGED <<reachable, store, stats, req, win, lastMiss, clr, cm, written,
                   derived, engine, ops>>

\* the backend becomes unreachable, or reachable again
BackendFlip ==
    /\ Quiet
    /\ reachable' = ~reachable
    /\ UNCHANGED <<phase, redis_client, tts_client, store, stats, req, win,
                   lastMiss, clr, cm, written,
                   derived, engine, ops>>

\* a write grows one tick older; at the time-to-live it has elapsed
TickWritten(w) ==
    IF w = None THEN None
    ELSE Some([w[1] EXCEPT
                 !.age = IF w[1].age < TtlTicks THEN w[1].age + 1 ELSE TtlTicks])

\* time passes: one clock tick
Tick ==
    /\ Quiet
    /\ store' = RedisTick(store)
    /\ win' = [c \in Clients |-> TickWindow(win[c])]
    /\ lastMiss' = Forget(lastMiss,
                     ParamsOf({k \in AudioKeys : store'[k] = None /\ store[k] # None}))
    /\ written' = [k \in DOMAIN written |-> TickWritten(written[k])]
    /\ UNCHANGED <<phase, redis_client, tts_client, reachable, stats, req, clr, cm,
                   derived, engine, ops>>

(***************************************************************************)
(* POST /synthesize (main.py synthesize, lines 244-290).  One action per   *)
(* awaited call; the code between two awaits belongs to the action of the  *)
(* call before it.                                                         *)
(***************************************************************************)
\* the longest text a request may carry (MAX_TEXT_LENGTH, default 5000)
MAX_TEXT_LENGTH == 3

\* status of the answer to a request that fails validation
ValidationErrorStatus == 422

\* a request model that puts no lower limit on the speed
Valid_NoSpeedFloor(p) ==
    /\ Len(p.text) >= 1 /\ Len(p.text) <= MAX_TEXT_LENGTH
    /\ p.speed <= 40
    /\ p.pitch >= 0 - 200 /\ p.pitch <= 200

\* SynthesizeRequest (lines 41-46): text of 1..MAX_TEXT_LENGTH characters,
\* 0.25 <= speed <= 4.0, -20.0 <= pitch <= 20.0 (speed and pitch in tenths)
Valid(p) ==
    /\ Len(p.text) >= 1 /\ Len(p.text) <= MAX_TEXT_LENGTH
    /\ 10 * p.speed >= 25 /\ p.speed <= 40
    /\ p.pitch >= 0 - 200 /\ p.pitch <= 200

ValidationErrorResponse == [NoResponse EXCEPT !.status = ValidationErrorStatus]

\* a request body that fails validation is answered before the handler runs
\* (line 245: the body is parsed into SynthesizeRequest)
Reject(r, c, p) ==
    /\ Quiet
    /\ LoopFree
    /\ phase = "serving"
    /\ req[r].pc = "idle"
    /\ ~Valid(p)
    /\ req' = [req EXCEPT ![r] = [IdleReq EXCEPT !.pc = "done", !.client = c,
                                                  !.params = p,
                                                  !.resp = ValidationErrorResponse]]
    /\ UNCHANGED <<phase, redis_client, tts_client, reachable, store, stats, win,
                   lastMiss, clr, cm, written, derived, engine, ops>>

\* the counter of client c can take the increments of the requests that
\* have arrived and of one more without passing MaxCount
Room(c) ==
    RedisIncrValue(store, RateKey(c))
      + Cardinality({q \in Reqs : req[q].pc = "rate" /\ req[q].client = c})
      <= MaxCount

\* a request reaches the handler (line 248)
Start(r, c, p) ==
    /\ Quiet
    /\ LoopFree
    /\ phase = "serving"
    /\ req[r].pc = "idle"
    /\ Valid(p)
    /\ Room(c)
    /\ req' = [req EXCEPT ![r] =
                 [IdleReq EXCEPT !.pc = "rate", !.client = c, !.params = p,
                                 !.passed = {q \in Reqs : req[q].pc = "synth"}]]
    /\ UNCHANGED <<phase, redis_client, tts_client, reachable, store, stats, win,
                   lastMiss, clr, cm, written,
                   derived, engine, ops>>

\* a handler that goes on to the cache although the request was refused
FinishRate_IgnoresLimit(rec, allowed) ==
    [rec EXCEPT !.pc = "probe", !.rl = Some(allowed)]

\* lines 249-257: what synthesize does with the answer of check_rate_limit
FinishRate(rec, allowed) ==
    IF allowed
    THEN [rec EXCEPT !.pc = "probe", !.rl = Some(TRUE)]
    ELSE [rec EXCEPT !.pc = "done", !.rl = Some(FALSE), !.resp = RateLimitedResponse]

\* a limiter that renews the expiry on every call
sets_expiry_EveryCall(count) == TRUE

\* line 78: if count == 1
sets_expiry(count) == count = 1

\* a limiter that reads the counter before it increments it
check_rate_limit_count_BeforeIncr(st, k) == RedisIncrValue(st, k) - 1

\* line 77: count = await redis_client.incr(key), the value after the increment
check_rate_limit_count(st, k) == RedisIncrValue(st, k)

\* check_rate_limit up to and including the incr call (lines 71-78, 81-83)
RateIncr(r) ==
    LET rec == [req[r] EXCEPT !.nRate = @ + 1]
        c == rec.client
        k == RateKey(c)
        count == check_rate_limit_count(store, k)
    IN
    /\ Quiet
    /\ LoopFree
    /\ rec.pc = "rate"
    /\ IF ~redis_client
       THEN /\ req' = [req EXCEPT ![r] =
                         FinishRate([rec EXCEPT !.rlErr = TRUE],
                                    check_rate_limit_no_client)]
            /\ UNCHANGED <<store, win>>
       ELSE IF ~reachable
       THEN /\ req' = [req EXCEPT ![r] =
                         FinishRate([rec EXCEPT !.rlErr = TRUE],
                                    check_rate_limit_on_error)]
            /\ win' = [win EXCEPT ![c].clean = FALSE]
            /\ UNCHANGED store
       ELSE /\ count <= MaxCount
            /\ store' = RedisIncr(store, k)
            /\ win' = [win EXCEPT ![c].calls = @ + 1,
                                  ![c].granted =
                                      IF ~sets_expiry(count) /\ Allowed(count)
                                      THEN @ + 1 ELSE @,
                                  ![c].age = IF win[c].calls = 0 /\ count # 1
                                             THEN 0 ELSE @]
            /\ LET rec1 == [rec EXCEPT !.someOk = TRUE,
                                       !.count = count,
                                       !.ord = win[c].calls + 1,
                                       !.rlClean = win[c].clean]
               IN req' = [req EXCEPT ![r] =
                            IF sets_expiry(count)
                            THEN [rec1 EXCEPT !.pc = "rate_expire"]
                            ELSE FinishRate(rec1, Allowed(count))]
    /\ UNCHANGED <<phase, redis_client, tts_client, reachable, stats, lastMiss,
                   clr, cm, written,
                   derived, engine, ops>>

\* check_rate_limit after count == 1: the expire call (lines 79-83)
RateExpire(r) ==
    LET rec == req[r]
        c == rec.client
        k == RateKey(c)
    IN
    /\ Quiet
    /\ LoopFree
    /\ rec.pc = "rate_expire"
    /\ IF ~reachable
       THEN /\ req' = [req EXCEPT ![r] =
                         FinishRate([rec EXCEPT !.rlErr = TRUE,
                                                !.rlClean = FALSE],
                                    check_rate_limit_on_error)]
            /\ win' = [win EXCEPT ![c].clean = FALSE, ![c].age = 0,
                                  ![c].granted =
                                      IF check_rate_limit_on_error
                                      THEN @ + 1 ELSE @]
            /\ UNCHANGED store
       ELSE /\ store' = RedisExpire(store, k, WindowTicks)
            /\ win' = [win EXCEPT ![c].age = 0,
                                  ![c].granted =
                                      IF Allowed(rec.count) THEN @ + 1 ELSE @]
            /\ req' = [req EXCEPT ![r] =
                         FinishRate([rec EXCEPT !.someOk = TRUE],
                                    Allowed(rec.count))]
    /\ UNCHANGED <<phase, redis_client, tts_client, reachable, stats, lastMiss,
                   clr, cm, written,
                   derived, engine, ops>>

\* get_cached_audio (lines 86-95) and the hit branch (lines 260-269)
Probe(r) ==
    LET rec == req[r]
        k == AudioKey(generate_cache_key(rec.params))
        ok == redis_client /\ reachable
        data == IF ~redis_client THEN None
                ELSE IF ~reachable THEN get_cached_audio_on_error
                ELSE RedisGet(store, k)
        rec1 == [rec EXCEPT !.nRead = @ + (IF redis_client THEN 1 ELSE 0),
                            !.someOk = @ \/ ok,
                            !.expect = IF ok THEN lastMiss[rec.params] ELSE None,
                            \* the locals and history of check_rate_limit end here
                            !.count = 0, !.ord = 0, !.rlClean = FALSE,
                            !.rlErr = FALSE]
    IN
    /\ Quiet
    /\ LoopFree
    /\ rec.pc = "probe"
    /\ req' = [req EXCEPT ![r] =
                 IF Truthy(data)
                 THEN [rec1 EXCEPT !.pc = "done", !.resp = AudioResponse(data[1], "HIT")]
                 ELSE [rec1 EXCEPT !.pc = "synth"]]
    /\ store' = IF ok THEN RedisAfterGet(store, k) ELSE store
    /\ UNCHANGED <<phase, redis_client, tts_client, reachable, stats, win,
                   lastMiss, clr, cm, written,
                   derived, engine, ops>>

\* a handler that calls the provider again when the call raised
synthesis_failed_Retry(rec) ==
    [rec EXCEPT !.pc = "synth", !.nProv = @ + 1]

\* lines 274-278: the exception of the provider call ends the request
synthesis_failed(rec) ==
    [rec EXCEPT !.pc = "done", !.nProv = @ + 1, !.provFailed = TRUE,
                !.resp = SynthesisFailedResponse(0)]

\* synthesize_speech in a worker thread (lines 113-144) and lines 271-278
\* out is what the provider call does: None when it raises, Some(bytes) otherwise
Synth(r, out) ==
    LET rec == req[r] IN
    /\ Quiet
    /\ rec.pc = "synth"
    /\ req' = [q \in Reqs |->
                 IF q # r
                 THEN [req[q] EXCEPT !.passed = @ \ {r}]
                 ELSE IF ~tts_client
                 THEN [rec EXCEPT !.pc = "done", !.provUnavail = TRUE,
                                  !.resp = SynthesisFailedResponse(ProviderUnavailableStatus)]
                 ELSE IF out = None
                 THEN synthesis_failed(rec)
                 ELSE [rec EXCEPT !.pc = "populate", !.nProv = @ + 1,
                                  !.audio_content = out]]
    /\ UNCHANGED <<phase, redis_client, tts_client, reachable, store, stats, win,
                   lastMiss, clr, cm, written,
                   derived, engine, ops>>

\* a cache write that keeps the entry a key already has
cache_audio_value_KeepExisting(content, existing) ==
    IF existing = None THEN content ELSE existing[1]

\* lines 104-108: setex overwrites whatever the key holds
cache_audio_value(content, existing) == content

\* cache_audio (lines 98-110) and the MISS response (lines 280-290)
Populate(r) ==
    LET rec == req[r]
        k == AudioKey(generate_cache_key(rec.params))
        content == rec.audio_content[1]
        ok == redis_client /\ reachable
        raised == redis_client /\ ~reachable
        rec1 == [rec EXCEPT !.pc = "done",
                            !.nWrite = @ + (IF redis_client THEN 1 ELSE 0),
                            !.someOk = @ \/ ok,
                            !.writeFailed = raised]
    IN
    /\ Quiet
    /\ LoopFree
    /\ rec.pc = "populate"
    /\ store' = IF ok
                THEN RedisSetex(store, k, TtlTicks,
                                cache_audio_value(content, RedisGet(store, k)))
                ELSE store
    /\ lastMiss' = IF ok
                   THEN [q \in ParamSet |->
                           IF q = rec.params THEN Some(content)
                           ELSE IF SameKey(q, rec.params) THEN None
                           ELSE lastMiss[q]]
                   ELSE lastMiss
    /\ req' = [req EXCEPT ![r] =
                 IF raised /\ ~cache_audio_swallows
                 THEN [rec1 EXCEPT !.resp = [NoResponse EXCEPT !.status = 500]]
                 ELSE [rec1 EXCEPT !.resp = AudioResponse(content, "MISS")]]
    /\ UNCHANGED <<phase, redis_client, tts_client, reachable, stats, win, clr, cm, written,
                   derived, engine, ops>>

\* the response has been sent: the slot serves the next request
Finish(r) ==
    /\ req[r].pc = "done"
    /\ req' = [req EXCEPT ![r] = IdleReq]
    /\ UNCHANGED <<phase, redis_client, tts_client, reachable, store, stats, win,
                   lastMiss, clr, cm, written,
                   derived, engine, ops>>

(***************************************************************************)
(* DELETE /cache/clear (main.py clear_cache, lines 315-331).               *)
(***************************************************************************)
IdleClear == [pc |-> "idle", keys |-> {}, status |-> 0, message |-> "",
              cleared |-> 0, removed |-> 0]

\* an endpoint that empties the whole backend
clear_cache_pattern_AllKeys == AllKeys

\* line 323: the pattern "audio:*"
clear_cache_pattern == AudioKeys

\* lines 318-323: the keys("audio:*") call
ClearKeys ==
    /\ Quiet
    /\ LoopFree
    /\ phase = "serving"
    /\ clr.pc = "idle"
    /\ clr' = IF ~redis_client
              THEN [IdleClear EXCEPT !.pc = "done", !.status = 200,
                                     !.message = "Cache not enabled"]
              ELSE IF ~reachable
              THEN [IdleClear EXCEPT !.pc = "done", !.status = 500,
                                     !.message = "Cache clear failed"]
              ELSE LET keys == RedisKeys(store, clear_cache_pattern) IN
                   IF keys # {}
                   THEN [IdleClear EXCEPT !.pc = "delete", !.keys = keys]
                   ELSE [IdleClear EXCEPT !.pc = "done", !.status = 200,
                                          !.message = "Cleared", !.cleared = 0]
    /\ UNCHANGED <<phase, redis_client, tts_client, reachable, store, stats, req,
                   win, lastMiss, cm, written,
                   derived, engine, ops>>

\* lines 324-331: the delete(*keys) call and the answer
ClearDelete ==
    /\ Quiet
    /\ LoopFree
    /\ clr.pc = "delete"
    /\ IF ~reachable
       THEN /\ clr' = [clr EXCEPT !.pc = "done", !.status = 500,
                                  !.message = "Cache clear failed"]
            /\ UNCHANGED <<store, lastMiss>>
       ELSE /\ store' = RedisDelete(store, clr.keys)
            /\ lastMiss' = Forget(lastMiss, ParamsOf(clr.keys))
            /\ clr' = [clr EXCEPT !.pc = "done", !.status = 200,
                                  !.message = "Cleared",
                                  !.cleared = Cardinality(clr.keys),
                                  !.removed = Cardinality(RedisKeys(store, clr.keys))]
    /\ UNCHANGED <<phase, redis_client, tts_client, reachable, stats, req, win, cm, written,
                   derived, engine, ops>>

ClearFinish ==
    /\ clr.pc = "done"
    /\ clr' = IdleClear
    /\ UNCHANGED <<phase, redis_client, tts_client, reachable, store, stats, req,
                   win, lastMiss, cm, written,
                   derived, engine, ops>>

NoCall == [op |-> "none"]

IdleCm == [op |-> "none", key |-> <<"", "">>, result |-> FALSE, failed |-> FALSE,
           statFailed |-> FALSE, before |-> [hits |-> 0, misses |-> 0],
           wrote |-> None, old |-> None]

\* what a provider call can do: raise (None) or return audio bytes
ProviderOutcomes == {None} \cup { Some(b) : b \in Payloads }

Init ==
    /\ phase = "boot"
    /\ redis_client = FALSE
    /\ tts_client = FALSE
    /\ reachable \in BOOLEAN
    /\ store = [k \in AllKeys |-> None]
    /\ stats = [hits |-> 0, misses |-> 0]
    /\ req = [r \in Reqs |-> IdleReq]
    /\ win = [c \in Clients |-> NoWindow]
    /\ lastMiss = [p \in ParamSet |-> None]
    /\ clr = IdleClear
    /\ cm = IdleCm
    /\ written = [k \in AllKeys |-> None]
    /\ derived = {}
    /\ engine = FALSE
    /\ ops = NoCall

(***************************************************************************)
(* The next-state relation for request slots RS, clients CS, parameter     *)
(* tuples PS and provider outcomes OS.  A finished handler hands its       *)
(* response over before any other step is taken: handing over is not a     *)
(* step of the code, and it commutes with every step that is.              *)
(***************************************************************************)
NextOf(RS, CS, PS, OS) ==
    \/ Lifespan
    \/ BackendFlip
    \/ Tick
    \/ \E r \in RS, c \in CS, p \in PS : Reject(r, c, p)
    \/ \E r \in RS, c \in CS, p \in PS : Start(r, c, p)
    \/ \E r \in RS : RateIncr(r)
    \/ \E r \in RS : RateExpire(r)
    \/ \E r \in RS : Probe(r)
    \/ \E r \in RS, out \in OS : Synth(r, out)
    \/ \E r \in RS : Populate(r)
    \/ \E r \in RS : Finish(r)
    \/ ClearKeys
    \/ ClearDelete
    \/ ClearFinish

P1 == MkParams(<<"a">>, <<"b", ":", "c">>, 10, 0, <<"j">>)

\* request bodies that fail validation: no text, a text one character too
\* long, a speed below 0.25, a speed above 4.0
PEmptyText == MkParams(<<>>, <<"c">>, 10, 0, <<"j">>)

InvalidParams ==
    { PEmptyText,
      MkParams([i \in 1..(MAX_TEXT_LENGTH + 1) |-> "a"], <<"c">>, 10, 0, <<"j">>),
      MkParams(<<"a">>, <<"c">>, 2, 0, <<"j">>),
      MkParams(<<"a">>, <<"c">>, 50, 0, <<"j">>) }

Next == NextOf(Reqs, {"ip1"}, {P1, PEmptyText}, ProviderOutcomes)

Spec == Init /\ [][Next]_vars

\* the pipeline where every call that is issued returns or raises: a step of
\* a handler that can be taken again and again is taken, and a response that
\* is ready is handed over
NextLive == NextOf(Reqs, {"ip1"}, {P1, PEmptyText}, {None, Some(<<1>>)})

\* the step request r is waiting for: the return of its pending call, or the
\* hand-over of its response
Pending(r) ==
    \/ RateIncr(r)
    \/ RateExpire(r)
    \/ Probe(r)
    \/ \E out \in {None, Some(<<1>>)} : Synth(r, out)
    \/ Populate(r)
    \/ Finish(r)

CallsReturn ==
    /\ \A r \in Reqs : SF_vars(Pending(r))
    /\ WF_vars(ClearFinish)

SpecLive == Init /\ [][NextLive]_vars /\ CallsReturn

\* the pipeline with two clients, each sending one request at a time, and
\* one provider payload
NextClients ==
    \/ NextOf({1}, {"ip1"}, {P1, PEmptyText}, {Some(<<1>>)})
    \/ NextOf({2}, {"ip2"}, {P1, PEmptyText}, {Some(<<1>>)})

SpecClients == Init /\ [][NextClients]_vars

\* parameters other than P1 for which generate_cache_key gives the key of P1
P1Colon == MkParams(<<"a", ":", "b">>, <<"c">>, 10, 0, <<"j">>)

\* the pipeline with requests for P1 and for P1Colon and one provider payload
NextSameKey == NextOf(Reqs, {"ip1"}, {P1, P1Colon, PEmptyText}, {Some(<<1>>)})

SpecSameKey == Init /\ [][NextSameKey]_vars

\* the pipeline with every kind of invalid request and one provider payload
NextValidation == NextOf(Reqs, {"ip1"}, {P1} \cup InvalidParams, {Some(<<1>>)})

SpecValidation == Init /\ [][NextValidation]_vars

(***************************************************************************)
(* CacheManager (cache_manager.py).  Its client is synchronous: one        *)
(* operation is one action.  An operation that makes several backend calls *)
(* takes as a parameter whether the calls after the first succeed, and the *)
(* backend is left unreachable when one of them raised.                    *)
(***************************************************************************)
\* get calls that count a hit or a miss in the model
MaxGets == 3

CmKeys == AudioKeys \cup {RateKey("ip1")}

\* a pattern that matches the keys of every family
CmAudioKeys_EveryFamily == CmKeys

\* redis keys("audio:*")
CmAudioKeys == { k \in CmKeys : IsAudioKey(k) }

\* lines 44-46: get returns None
get_on_error == None

\* lines 54-56: set returns False
set_on_error == FALSE

\* a delete that reports success whatever the backend removed
delete_result_Always(removed) == removed >= 0

\* line 62: delete returns whether the backend removed a key
delete_result(removed) == removed > 0

\* a delete that reports success when the backend call raised
delete_on_error_True == TRUE

\* lines 63-65: delete returns False
delete_on_error == FALSE

\* a clear_all whose pattern matches every key of the backend
clear_all_matches_stats_Wildcard == TRUE

\* line 70: the pattern "audio:*" does not match the key "cache:stats"
clear_all_matches_stats == FALSE

\* lines 74-76: clear_all returns 0
clear_all_on_error == 0

\* lines 99-107: the snapshot get_stats returns when a call raised
get_stats_on_error ==
    [total_keys |-> 0, memory_usage_mb |-> 0, hit_rate |-> 0, total_hits |-> 0,
     total_misses |-> 0]

\* lines 121-122: is_connected returns False
is_connected_on_error == FALSE

\* a get that answers None for a payload that is not truthy
get_returns_TruthyOnly(data) == IF Truthy(data) THEN data ELSE None

\* line 43: get returns what the backend returned
get_returns(data) == data

\* an _increment_stat that lets the error of hincrby out
increment_stat_propagates == FALSE

\* lines 113-114: _increment_stat catches the error of hincrby
increment_stat_swallows == TRUE

\* _increment_stat (lines 109-114): hincrby, its error logged and dropped
IncrementStat(st, name, ok) == IF ok THEN [st EXCEPT ![name] = @ + 1] ELSE st

RECURSIVE SumLen(_, _)
SumLen(st, ks) ==
    IF ks = {} THEN 0
    ELSE LET k == CHOOSE x \in ks : TRUE
         IN (IF st[k] = None THEN 0 ELSE Len(st[k][1].val)) + SumLen(st, ks \ {k})

\* info("memory")["used_memory"]: the bytes the stored payloads take
UsedMemory(st) == SumLen(st, CmKeys)

\* dbsize(): the number of keys in the backend; the hash "cache:stats" is
\* one of them once a statistic was counted
DbSize(st, sts) ==
    Cardinality({ k \in DOMAIN st : st[k] # None })
        + (IF sts.hits + sts.misses > 0 THEN 1 ELSE 0)

\* round(x, 2) of x = n / d >= 0, in hundredths (ties to the even neighbour)
RoundHundredths(n, d) ==
    LET q == (n * 100) \div d
        twice == 2 * ((n * 100) % d)
    IN  IF twice > d \/ (twice = d /\ q % 2 = 1) THEN q + 1 ELSE q

\* lines 89-90, 95: the hit rate in percent, rounded to two decimals; the
\* value is held in hundredths of a percent
HitRate(hits, misses) ==
    IF hits + misses > 0 THEN RoundHundredths(hits * 100, hits + misses) ELSE 0

\* lines 80-98: the snapshot of get_stats when every call succeeded
StatsSnapshot(st, sts) ==
    [total_keys |-> DbSize(st, sts),
     memory_usage_mb |-> UsedMemory(st) \div (1024 * 1024),
     hit_rate |-> HitRate(sts.hits, sts.misses),
     total_hits |-> sts.hits,
     total_misses |-> sts.misses]

\* the record of a call: what it returned, whether a backend call raised, and
\* what held when it was made (the counters, and for a get the last write of
\* the key it reads)
CmDone(op, key, result, failed, statFailed) ==
    [op |-> op, key |-> key, result |-> result, failed |-> failed,
     statFailed |-> statFailed, before |-> stats,
     wrote |-> IF op = "get" THEN written[key] ELSE None,
     old |-> IF op = "set" /\ ~failed THEN store[key] ELSE None]

\* a set that stores the entry without an expiry
CacheManagerTtl_NoExpiry == NoExpiry

\* self.ttl (line 14): the configured ttl_hours
CacheManagerTtl == TtlTicks

NoKey == <<"", "">>

\* CacheManager.get (lines 33-46)
CmGet(k, statOk) ==
    /\ stats.hits + stats.misses < MaxGets
    /\ IF ~reachable
       THEN /\ cm' = CmDone("get", k, get_on_error, TRUE, FALSE)
            /\ UNCHANGED <<stats, reachable, store>>
       ELSE LET data == RedisGet(store, k)
                raised == ~statOk /\ ~increment_stat_swallows
            IN
            /\ store' = RedisAfterGet(store, k)
            /\ stats' = IncrementStat(stats, IF Truthy(data) THEN "hits" ELSE "misses",
                                      statOk)
            /\ reachable' = statOk
            /\ cm' = IF raised
                     THEN CmDone("get", k, get_on_error, TRUE, TRUE)
                     ELSE CmDone("get", k, get_returns(data), FALSE, ~statOk)
    /\ UNCHANGED <<phase, redis_client, tts_client, req, win, lastMiss, clr,
                   written,
                   derived, engine, ops>>

\* a set that leaves an existing entry the expiry it has
set_expiry_KeepTtl(st, k, t) == IF st[k] = None THEN t ELSE st[k][1].ttl

\* line 51: setex(key, self.ttl, audio_data) sets the expiry with the value
set_expiry(st, k, t) == t

\* CacheManager.set (lines 48-56)
CmSet(k, audio_data) ==
    /\ IF ~reachable
       THEN /\ cm' = CmDone("set", k, set_on_error, TRUE, FALSE)
            /\ UNCHANGED <<store, written>>
       ELSE /\ store' = RedisSetex(store, k, set_expiry(store, k, CacheManagerTtl),
                                    audio_data)
            /\ written' = [written EXCEPT ![k] = Some([val |-> audio_data, age |-> 0])]
            /\ cm' = CmDone("set", k, TRUE, FALSE, FALSE)
    /\ UNCHANGED <<phase, redis_client, tts_client, reachable, stats, req, win,
                   lastMiss, clr,
                   derived, engine, ops>>

\* CacheManager.delete (lines 58-65)
CmDelete(k) ==
    /\ IF ~reachable
       THEN /\ cm' = CmDone("delete", k, delete_on_error, TRUE, FALSE)
            /\ UNCHANGED <<store, written>>
       ELSE /\ store' = RedisDelete(store, {k})
            /\ written' = [written EXCEPT ![k] = None]
            /\ cm' = CmDone("delete", k,
                            delete_result(Cardinality(RedisKeys(store, {k}))),
                            FALSE, FALSE)
    /\ UNCHANGED <<phase, redis_client, tts_client, reachable, stats, req, win,
                   lastMiss, clr,
                   derived, engine, ops>>

\* CacheManager.clear_all (lines 67-76)
CmClearAll(deleteOk) ==
    LET keys == RedisKeys(store, CmAudioKeys) IN
    /\ IF ~reachable
       THEN /\ cm' = CmDone("clear_all", NoKey, clear_all_on_error, TRUE, FALSE)
            /\ UNCHANGED <<store, reachable, written, stats>>
       ELSE IF keys = {}
       THEN /\ cm' = CmDone("clear_all", NoKey, 0, FALSE, FALSE)
            /\ UNCHANGED <<store, reachable, written, stats>>
       ELSE IF ~deleteOk
       THEN /\ cm' = CmDone("clear_all", NoKey, clear_all_on_error, TRUE, FALSE)
            /\ reachable' = FALSE
            /\ UNCHANGED <<store, written, stats>>
       ELSE /\ cm' = CmDone("clear_all", NoKey, Cardinality(RedisKeys(store, keys)),
                            FALSE, FALSE)
            /\ store' = RedisDelete(store, keys)
            /\ written' = [k \in DOMAIN written |->
                              IF k \in keys THEN None ELSE written[k]]
            /\ stats' = IF clear_all_matches_stats
                        THEN [hits |-> 0, misses |-> 0]
                        ELSE stats
            /\ UNCHANGED reachable
    /\ UNCHANGED <<phase, redis_client, tts_client, req, win, lastMiss, clr,
                   derived, engine, ops>>

\* CacheManager.get_stats (lines 78-107)
CmGetStats(restOk) ==
    /\ IF ~reachable
       THEN /\ cm' = CmDone("get_stats", NoKey, get_stats_on_error, TRUE, FALSE)
            /\ UNCHANGED reachable
       ELSE IF ~restOk
       THEN /\ cm' = CmDone("get_stats", NoKey, get_stats_on_error, TRUE, FALSE)
            /\ reachable' = FALSE
       ELSE /\ cm' = CmDone("get_stats", NoKey, StatsSnapshot(store, stats), FALSE,
                            FALSE)
            /\ UNCHANGED reachable
    /\ UNCHANGED <<phase, redis_client, tts_client, store, stats, req, win, lastMiss,
                   clr, written,
                   derived, engine, ops>>

\* CacheManager.is_connected (lines 116-122)
CmIsConnected ==
    /\ cm' = IF reachable
             THEN CmDone("is_connected", NoKey, TRUE, FALSE, FALSE)
             ELSE CmDone("is_connected", NoKey, is_connected_on_error, TRUE, FALSE)
    /\ UNCHANGED <<phase, redis_client, tts_client, reachable, store, stats, req, win,
                   lastMiss, clr, written,
                   derived, engine, ops>>

NextCMOf(KS, BS) ==
    \/ BackendFlip
    \/ Tick
    \/ \E k \in KS, statOk \in BOOLEAN : CmGet(k, statOk)
    \/ \E k \in KS, b \in BS : CmSet(k, b)
    \/ \E k \in KS : CmDelete(k)
    \/ \E deleteOk \in BOOLEAN : CmClearAll(deleteOk)
    \/ \E restOk \in BOOLEAN : CmGetStats(restOk)
    \/ CmIsConnected

\* the keys and payloads the callers of CacheManager use here: two cache
\* keys, the key of another family, the empty payload and a payload of one byte
P2 == MkParams(<<"x">>, <<"c">>, 10, 0, <<"j">>)

NextCM ==
    NextCMOf({AudioKey(generate_cache_key(P1)), AudioKey(generate_cache_key(P2)),
              RateKey("ip1")},
             {<<>>, <<1>>})

SpecCM == Init /\ [][NextCM]_vars

\* the endpoints of main.py and the get and clear_all of a CacheManager on
\* the same backend: one request slot, one client, one payload, one cache key
NextShared ==
    \/ NextOf({1}, {"ip1"}, {P1, PEmptyText}, {Some(<<1>>)})
    \/ \E statOk \in BOOLEAN : CmGet(AudioKey(generate_cache_key(P1)), statOk)
    \/ \E deleteOk \in BOOLEAN : CmClearAll(deleteOk)

SpecShared == Init /\ [][NextShared]_vars

(***************************************************************************)
(* Key derivation of CacheManager (_generate_key) and the calls of the two *)
(* key derivations.  Both are pure functions of their arguments; a call    *)
(* leaves its input and its result in the history.                         *)
(***************************************************************************)
\* derivations kept in the history
MaxDerived == 2

MkCmParams(t, v, s, p, l, g) ==
    [text |-> t, voice |-> v, speed |-> s, pitch |-> p, language |-> l,
     volume_gain_db |-> g]

CmFields == {"text", "voice", "speed", "pitch", "language", "volume_gain_db"}

\* the arguments the callers of _generate_key pass here
CmParamSet ==
    { MkCmParams(t, v, s, p, l, g) :
        t \in { <<"a">>, <<"a", ":", "b">>, <<"a", "\"">>, <<"a", "\\">> },
        v \in { <<"c">>, <<"b", ":", "c">> },
        s \in { 10, 15 },
        p \in { 0, 0 - 5 },
        l \in { <<"j">>, <<"e">> },
        g \in { 0, 5 } }

\* json.dumps of a str: quoted, with the quote and the backslash escaped
RECURSIVE JsonEscape(_)
JsonEscape(s) ==
    IF s = <<>> THEN <<>>
    ELSE (IF Head(s) = "\"" THEN <<"\\", "\"">>
          ELSE IF Head(s) = "\\" THEN <<"\\", "\\">>
          ELSE <<Head(s)>>) \o JsonEscape(Tail(s))

JsonStr(s) == <<"\"">> \o JsonEscape(s) \o <<"\"">>

\* one "name": value member of the JSON object
JsonMember(name, value) == JsonStr(name) \o <<":", " ">> \o value

JsonSep == <<",", " ">>

\* a params dict that leaves the volume gain out
JsonDumps_NoVolume(p) ==
    <<"{">>
    \o JsonMember(<<"l", "a", "n", "g", "u", "a", "g", "e">>, JsonStr(p.language))
    \o JsonSep \o JsonMember(<<"p", "i", "t", "c", "h">>, FloatStr(p.pitch))
    \o JsonSep \o JsonMember(<<"s", "p", "e", "e", "d">>, FloatStr(p.speed))
    \o JsonSep \o JsonMember(<<"t", "e", "x", "t">>, JsonStr(p.text))
    \o JsonSep \o JsonMember(<<"v", "o", "i", "c", "e">>, JsonStr(p.voice))
    \o <<"}">>

\* lines 19-29: json.dumps(params, sort_keys=True), the members in the order
\* of their names
JsonDumps(p) ==
    <<"{">>
    \o JsonMember(<<"l", "a", "n", "g", "u", "a", "g", "e">>, JsonStr(p.language))
    \o JsonSep \o JsonMember(<<"p", "i", "t", "c", "h">>, FloatStr(p.pitch))
    \o JsonSep \o JsonMember(<<"s", "p", "e", "e", "d">>, FloatStr(p.speed))
    \o JsonSep \o JsonMember(<<"t", "e", "x", "t">>, JsonStr(p.text))
    \o JsonSep \o JsonMember(<<"v", "o", "i", "c", "e">>, JsonStr(p.voice))
    \o JsonSep
    \o JsonMember(<<"v", "o", "l", "u", "m", "e", "_", "g", "a", "i", "n", "_", "d", "b">>,
                  FloatStr(p.volume_gain_db))
    \o <<"}">>

\* CacheManager._generate_key (lines 17-31)
_generate_key(p) == AudioKey(Sha256Hex(JsonDumps(p)))

\* characters of the hexadecimal digest of SHA-256 (hexdigest())
HexDigestLen == 64

\* line 31: the prefix "audio:" of the f-string
KeyPrefix == <<"a", "u", "d", "i", "o", ":">>

\* line 31: the characters of the key f"audio:{hash_obj.hexdigest()}"; the
\* digest k[2] stands at each of its character positions
KeyText(k) == KeyPrefix \o [i \in 1..HexDigestLen |-> k[2]]

Derivation(fn, p, k) == [fn |-> fn, params |-> p, key |-> k]

\* a call of generate_cache_key (main.py line 257)
CallGenerateCacheKey(p) ==
    /\ Cardinality(derived) < MaxDerived
    /\ derived' = derived \cup {Derivation("generate_cache_key", p, generate_cache_key(p))}
    /\ UNCHANGED <<phase, redis_client, tts_client, reachable, store, stats, req, win,
                   lastMiss, clr, cm, written, engine, ops>>

\* a call of CacheManager._generate_key
CallGenerateKey(p) ==
    /\ Cardinality(derived) < MaxDerived
    /\ derived' = derived \cup {Derivation("_generate_key", p, _generate_key(p))}
    /\ UNCHANGED <<phase, redis_client, tts_client, reachable, store, stats, req, win,
                   lastMiss, clr, cm, written, engine, ops>>

NextKeys ==
    \/ \E p \in ParamSet : CallGenerateCacheKey(p)
    \/ \E p \in CmParamSet : CallGenerateKey(p)

SpecKeys == Init /\ [][NextKeys]_vars

\* the fields in which two argument tuples of _generate_key differ
DiffFields(p, q) == { f \in CmFields : p[f] # q[f] }

(***************************************************************************)
(* GET /health and GET /cache/stats (main.py) and TTSEngine                *)
(* (tts_engine.py).  Each is one call; its answer is kept in ops together  *)
(* with what held when it was made.                                        *)
(***************************************************************************)
\* largest counter value the backend reports in INFO stats here
MaxInfo == 2

\* what INFO stats holds for a counter: absent (None) or Some(value)
InfoValues == {None} \cup { Some(n) : n \in 0..MaxInfo }

\* info.get(name, default)
InfoGet(v, default) == IF v = None THEN default ELSE v[1]

\* main.py health_check (lines 197-205)
HealthCheck ==
    /\ phase = "serving"
    /\ ops' = [op |-> "health", status |-> "ok",
               redis |-> redis_client, tts |-> tts_client,
               \* what held at the call
               backend_live |-> reachable, provider_usable |-> tts_client]
    /\ UNCHANGED <<phase, redis_client, tts_client, reachable, store, stats, req, win,
                   lastMiss, clr, cm, written, derived, engine>>

\* line 312: the answer of cache_stats when a call or the division raised
cache_stats_on_error == [cache_enabled |-> FALSE, error |-> TRUE]

\* lines 303-310: the snapshot; hit_rate is the quotient num / den
CacheStatsSnapshot(keys, hits, misses) ==
    [cache_enabled |-> TRUE,
     total_keys |-> keys,
     keyspace_hits |-> InfoGet(hits, 0),
     keyspace_misses |-> InfoGet(misses, 0),
     hit_rate |-> [num |-> InfoGet(hits, 0),
                   den |-> InfoGet(hits, 0) + InfoGet(misses, 1)]]

\* main.py cache_stats (lines 293-312); hits and misses are what the
\* backend's INFO stats holds
CacheStats(hits, misses) ==
    LET result == IF ~redis_client THEN [cache_enabled |-> FALSE]
                  ELSE IF ~reachable THEN cache_stats_on_error
                  ELSE IF InfoGet(hits, 0) + InfoGet(misses, 1) = 0
                  THEN cache_stats_on_error      \* ZeroDivisionError
                  ELSE CacheStatsSnapshot(DbSize(store, stats), hits, misses)
    IN
    /\ phase = "serving"
    /\ ops' = [op |-> "cache_stats", result |-> result,
               \* what held at the call
               handle |-> redis_client, backend_live |-> reachable,
               hits |-> hits, misses |-> misses]
    /\ UNCHANGED <<phase, redis_client, tts_client, reachable, store, stats, req, win,
                   lastMiss, clr, cm, written, derived, engine>>

\* TTSEngine.__init__ and initialize_client (lines 11-22)
EngineInit(ok) ==
    /\ engine' = ok
    /\ ops' = [op |-> "engine_init"]
    /\ UNCHANGED <<phase, redis_client, tts_client, reachable, store, stats, req, win,
                   lastMiss, clr, cm, written, derived>>

\* a synthesize that lets the error of the provider call out
engine_synthesize_raises == FALSE

\* lines 80-85: synthesize catches every Exception and returns None
engine_synthesize_catches == TRUE

\* TTSEngine.synthesize (lines 24-85); out is what the provider call does:
\* None when it raises, Some(bytes) when it returns
EngineSynthesize(out) ==
    LET failed == engine /\ out = None IN
    /\ ops' = [op |-> "engine_synthesize",
               result |-> IF ~engine THEN None
                          ELSE IF failed THEN None
                          ELSE out,
               raised |-> failed /\ ~engine_synthesize_catches,
               \* what held at the call
               client |-> engine, provider |-> out]
    /\ UNCHANGED <<phase, redis_client, tts_client, reachable, store, stats, req, win,
                   lastMiss, clr, cm, written, derived, engine>>

NextOps ==
    \/ Lifespan
    \/ BackendFlip
    \/ HealthCheck
    \/ \E hits \in InfoValues, misses \in InfoValues : CacheStats(hits, misses)
    \/ \E ok \in BOOLEAN : EngineInit(ok)
    \/ \E out \in ProviderOutcomes : EngineSynthesize(out)

SpecOps == Init /\ [][NextOps]_vars

(***************************************************************************)
(* Properties of POST /synthesize.                                         *)
(***************************************************************************)
CurrentKey(r) == AudioKey(generate_cache_key(req[r].params))

\* C1: a request that probes the cache while the body of the last MISS for
\* its parameters is stored (reachable backend, entry neither expired nor
\* cleared) answers 200 with X-Cache: HIT and that body, and does not invoke
\* the provider.
C1_HitAfterMiss ==
    \A r \in Reqs :
        (req[r].pc = "done" /\ req[r].expect # None)
        => /\ req[r].resp.status = 200
           /\ req[r].resp.xcache = "HIT"
           /\ req[r].resp.body = req[r].expect
           /\ req[r].nProv = 0

\* C2: a request that check_rate_limit refuses ends at once with 429 and
\* Retry-After: 60; it has read no cache key, has not invoked the provider, has
\* written no cache entry, and the refusing step leaves every audio entry as
\* it was.
C2_RateLimitedStopsThere ==
    [][\A r \in Reqs :
         (req'[r].rl = Some(FALSE))
         => /\ req'[r].pc = "done"
            /\ req'[r].resp = [status |-> 429, xcache |-> "", body |-> None,
                               retry_after |-> RetryAfter]
            /\ req'[r].nRead = 0 /\ req'[r].nProv = 0 /\ req'[r].nWrite = 0
            /\ req'[r].audio_content = None
            /\ (req[r].rl = None
                => /\ \A k \in AudioKeys : store'[k] = store[k]
                   /\ lastMiss' = lastMiss)]_vars

\* a refused request while the entry of its parameters is in the cache
C2_Witness ==
    \E r \in Reqs :
        /\ req[r].rl = Some(FALSE)
        /\ req[r].resp.status = 429
        /\ store[CurrentKey(r)] # None

\* C3: as long as no rate-limit call of the client has failed, the n-th call
\* that increments the counter inside one window returns true iff
\* n <= RATE_LIMIT_PER_MINUTE: the first L calls are allowed, every further
\* call of the window is refused.
C3_LimitPerWindow ==
    \A r \in Reqs :
        (req[r].rl # None /\ req[r].rlClean)
        => /\ req[r].ord >= 1
           /\ req[r].rl = Some(req[r].ord <= RATE_LIMIT_PER_MINUTE)

\* call L+1 of a window on a backend that never failed, refused
C3_Witness ==
    \E r \in Reqs :
        /\ req[r].rlClean
        /\ req[r].ord = RATE_LIMIT_PER_MINUTE + 1
        /\ req[r].rl = Some(FALSE)

\* C4: once the window is over (WindowTicks ticks after the call that opened
\* it returned) the counter no longer exists, and the call that opens the
\* next window returns true, whatever backend calls failed before.
C4_WindowEndsAndAllowsAgain ==
    /\ \A c \in Clients : win[c].calls = 0 => store[RateKey(c)] = None
    /\ \A r \in Reqs : (req[r].rl # None /\ req[r].ord = 1) => req[r].rl = Some(TRUE)

\* C5: check_rate_limit returns true whenever it has no backend handle or one
\* of its backend calls (incr, expire) raised.
C5_FailOpen ==
    \A r \in Reqs : (req[r].rl # None /\ req[r].rlErr) => req[r].rl = Some(TRUE)

\* the backend call raised for a client whose counter is over the limit
C5_Witness ==
    \E r \in Reqs :
        /\ req[r].rlErr
        /\ req[r].rl = Some(TRUE)
        /\ store[RateKey(req[r].client)] # None
        /\ store[RateKey(req[r].client)][1].val > RATE_LIMIT_PER_MINUTE

\* C6: a request that entered the handler, none of whose backend calls
\* succeeded (or that had no backend handle), with a provider client whose
\* call did not raise, ends with 200, X-Cache: MISS and the bytes the
\* provider returned.
C6_BackendDownStillServes ==
    \A r \in Reqs :
        (req[r].pc = "done" /\ req[r].nRate = 1
           /\ ~req[r].someOk /\ tts_client /\ ~req[r].provFailed)
        => /\ req[r].resp.status = 200
           /\ req[r].resp.xcache = "MISS"
           /\ req[r].nProv = 1
           /\ req[r].resp.body = req[r].audio_content
           /\ req[r].resp.body # None

\* all three backend calls of a request were issued and raised; it is served
C6_Witness ==
    \E r \in Reqs :
        /\ req[r].pc = "done" /\ ~req[r].someOk /\ redis_client
        /\ req[r].rlErr = FALSE /\ req[r].nRead = 1 /\ req[r].writeFailed
        /\ req[r].resp.status = 200

\* C8: a request that passed the rate limit and missed the cache while there is
\* no provider client is answered with 503.
C8_ProviderUnavailable503 ==
    \A r \in Reqs :
        (req[r].pc = "done" /\ req[r].provUnavail) => req[r].resp.status = 503

\* C9: the step in which the provider call raises ends the request with 500,
\* the request has written no cache entry, and the step changes no entry of
\* the backend.
C9_SynthesisFailedNoWrite ==
    [][\A r \in Reqs :
         (req[r].pc = "synth" /\ req'[r].provFailed)
         => /\ req'[r].pc = "done"
            /\ req'[r].resp.status = 500
            /\ req'[r].resp.body = None
            /\ req'[r].nWrite = 0
            /\ store' = store]_vars

\* the provider call raised while the backend was reachable and held an entry
C9_Witness ==
    \E r \in Reqs :
        /\ req[r].pc = "done" /\ req[r].provFailed
        /\ redis_client /\ reachable
        /\ \E k \in AudioKeys : store[k] # None

\* C10: a request whose cache write raised still ends with 200, X-Cache: MISS
\* and the synthesized bytes.
C10_WriteFailureIgnored ==
    \A r \in Reqs :
        (req[r].pc = "done" /\ req[r].writeFailed)
        => /\ req[r].audio_content # None
           /\ req[r].resp = [status |-> 200, xcache |-> "MISS",
                             body |-> req[r].audio_content, retry_after |-> 0]

\* the cache write raised after the cache read had succeeded
C10_Witness ==
    \E r \in Reqs :
        /\ req[r].pc = "done" /\ req[r].writeFailed /\ req[r].someOk
        /\ req[r].resp.status = 200

(***************************************************************************)
(* Properties of CacheManager.                                             *)
(***************************************************************************)
\* C7: an operation of CacheManager whose backend call raised returns its
\* degraded value: get None, set False, delete False, clear_all 0, get_stats
\* the all-zero snapshot, is_connected False.
C7_CacheManagerDegrades ==
    (cm.op # "none" /\ cm.failed)
    => CASE cm.op = "get" -> cm.result = None
         [] cm.op = "set" -> cm.result = FALSE
         [] cm.op = "delete" -> cm.result = FALSE
         [] cm.op = "clear_all" -> cm.result = 0
         [] cm.op = "get_stats" ->
                cm.result = [total_keys |-> 0, memory_usage_mb |-> 0, hit_rate |-> 0,
                             total_hits |-> 0, total_misses |-> 0]
         [] cm.op = "is_connected" -> cm.result = FALSE

\* a delete of a stored key whose backend call raised
C7_Witness ==
    /\ cm.op = "delete" /\ cm.failed
    /\ store[cm.key] # None
    /\ cm.result = FALSE

\* C11: on a reachable backend, a get of key k that comes right after a set
\* of k that returned True (no other CacheManager call and no clock tick in
\* between) returns exactly the payload that was set, whatever the payload.
C11_SetThenGet ==
    [][ ( /\ cm.op = "set" /\ cm.result = TRUE
          /\ written[cm.key] # None /\ written[cm.key][1].age = 0
          /\ cm'.op = "get" /\ cm'.key = cm.key /\ ~cm'.failed )
        => cm'.result = Some(written[cm.key][1].val) ]_vars

\* a get right after a set of the empty payload returned the empty payload
C11_Witness ==
    /\ cm.op = "get" /\ ~cm.failed
    /\ cm.wrote # None /\ cm.wrote[1].age = 0
    /\ cm.wrote[1].val = <<>>
    /\ cm.result = Some(<<>>)

\* C12: a get of a key that was set (and not deleted since) returns the
\* payload of the last set as long as fewer clock ticks than the configured
\* time-to-live have passed since that set, and absent once they have.
C12_TtlFromWrite ==
    (cm.op = "get" /\ ~cm.failed /\ cm.wrote # None)
    => IF cm.wrote[1].age < TtlTicks
       THEN cm.result = Some(cm.wrote[1].val)
       ELSE cm.result = None

\* a get after the time-to-live of the last set has elapsed returned absent
C12_Witness ==
    /\ cm.op = "get" /\ ~cm.failed
    /\ cm.wrote # None /\ cm.wrote[1].age = TtlTicks
    /\ cm.result = None

\* C13: a get whose backend calls all succeed adds exactly 1 to hits and
\* nothing to misses when it returns a payload, and exactly 1 to misses and
\* nothing to hits when it returns absent.
C13_OneCounterPerGet ==
    (cm.op = "get" /\ ~cm.failed /\ ~cm.statFailed)
    => IF cm.result # None
       THEN stats.hits = cm.before.hits + 1 /\ stats.misses = cm.before.misses
       ELSE stats.misses = cm.before.misses + 1 /\ stats.hits = cm.before.hits

\* C16: a get whose lookup succeeded and whose counter increment raised
\* returns what the lookup found: the stored payload, or absent.
C16_IncrementFailureKeepsResult ==
    [][ (cm' # cm /\ cm'.op = "get" /\ cm'.statFailed)
        => (~cm'.failed /\ cm'.result = RedisGet(store, cm'.key)) ]_vars

\* a get returned the stored payload although its increment raised
C16_Witness ==
    /\ cm.op = "get" /\ cm.statFailed /\ ~cm.failed
    /\ cm.result # None /\ cm.wrote # None
    /\ cm.result = Some(cm.wrote[1].val)

\* C14: get_stats on a reachable backend reports the counted hits M as hits,
\* the counted misses N as misses, and M/(M+N) as hit_rate (0 when M+N is
\* 0).  hit_rate is held in hundredths, so r stands for r/100.
C14_StatsReport ==
    (cm.op = "get_stats" /\ ~cm.failed)
    => /\ cm.result.total_hits = stats.hits
       /\ cm.result.total_misses = stats.misses
       /\ IF stats.hits + stats.misses = 0
          THEN cm.result.hit_rate = 0
          ELSE cm.result.hit_rate * (stats.hits + stats.misses) = 100 * stats.hits

\* C15: no step of CacheManager (get, set, delete, clear_all, get_stats,
\* is_connected, on cache keys) and no step of the environment makes the
\* hits or the misses counter smaller.
C15_CountersNeverDecrease ==
    [][stats'.hits >= stats.hits /\ stats'.misses >= stats.misses]_vars

\* a clear_all removed entries and left counters that were not zero
C15_Witness ==
    /\ cm.op = "clear_all" /\ ~cm.failed
    /\ cm.result > 0
    /\ stats.hits > 0 /\ stats.misses > 0
    /\ cm.before = stats

(***************************************************************************)
(* Properties of the key derivations.                                      *)
(***************************************************************************)
\* C17: two calls of the same key derivation (generate_cache_key of the
\* pipeline, or CacheManager._generate_key) with different parameter tuples
\* hash different strings: with the hash collision-free, they return
\* different keys.
C17_DerivationInjective ==
    \A d1 \in derived : \A d2 \in derived :
        (d1.fn = d2.fn /\ d1.params # d2.params) => d1.key # d2.key

\* C18: two calls of CacheManager._generate_key whose arguments differ in
\* exactly one field return different keys (the hash collision-free).
C18_OneFieldChangesKey ==
    \A d1 \in derived : \A d2 \in derived :
        ( /\ d1.fn = "_generate_key" /\ d2.fn = "_generate_key"
          /\ Cardinality(DiffFields(d1.params, d2.params)) = 1 )
        => d1.key # d2.key

\* two calls that differ in the volume gain only returned different keys
C18_Witness ==
    \E d1 \in derived : \E d2 \in derived :
        /\ d1.fn = "_generate_key" /\ d2.fn = "_generate_key"
        /\ DiffFields(d1.params, d2.params) = {"volume_gain_db"}
        /\ d1.key # d2.key

(***************************************************************************)
(* Properties of CacheManager.delete.                                      *)
(***************************************************************************)
\* C20: a delete of key k whose backend call succeeds returns True exactly
\* when k existed when it was called; after it k is absent (a get of k finds
\* nothing) and every other key has the entry it had.
C20_DeleteOneKey ==
    [][ (cm' # cm /\ cm'.op = "delete" /\ ~cm'.failed)
        => /\ cm'.result = (store[cm'.key] # None)
           /\ RedisGet(store', cm'.key) = None
           /\ \A k \in DOMAIN store : k # cm'.key => store'[k] = store[k] ]_vars

\* a delete removed an existing key while another key held a payload
C20_Witness ==
    /\ cm.op = "delete" /\ ~cm.failed
    /\ cm.result = TRUE
    /\ store[cm.key] = None
    /\ \E k \in DOMAIN store : k # cm.key /\ store[k] # None

(***************************************************************************)
(* Properties of clearing the cache.                                       *)
(***************************************************************************)
\* C21: a clear_all whose backend calls succeed, with nothing written
\* between its enumeration and its delete, returns the number of audio keys
\* that were stored when it was called, and afterwards every audio key is
\* absent (a get of it finds nothing).
C21_ClearAllRemovesAudioKeys ==
    [][ (cm' # cm /\ cm'.op = "clear_all" /\ ~cm'.failed)
        => /\ cm'.result
                = Cardinality({ k \in DOMAIN store : IsAudioKey(k) /\ store[k] # None })
           /\ \A k \in DOMAIN store : IsAudioKey(k) => RedisGet(store', k) = None ]_vars

\* a clear_all removed two audio entries; the key of another family is kept
C21_Witness ==
    /\ cm.op = "clear_all" /\ ~cm.failed
    /\ cm.result = 2
    /\ \A k \in DOMAIN store : IsAudioKey(k) => store[k] = None
    /\ store[RateKey("ip1")] # None

\* C22: the count the clear-cache endpoint reports is the number of audio
\* entries its delete removed, whatever ran between its enumeration and its
\* delete (expiry, cache writes).
C22_ClearReportsRemoved ==
    (clr.pc = "done" /\ clr.status = 200 /\ clr.message = "Cleared")
    => clr.cleared = clr.removed

(***************************************************************************)
(* Properties of the health and statistics endpoints and of TTSEngine.     *)
(***************************************************************************)
\* C23: GET /health reports the backend as live exactly when the backend is
\* reachable at the time of the call, and the provider as live exactly when
\* the provider client is usable.
C23_HealthIsLiveness ==
    ops.op = "health"
    => /\ ops.redis = ops.backend_live
       /\ ops.tts = ops.provider_usable

\* C24: GET /cache/stats, with the backend handle present and the backend
\* reachable and reporting both counters, answers cache_enabled true with
\* hit_rate = hits / (hits + misses), and hit_rate 0 when both are zero.
C24_CacheStatsHitRate ==
    ( /\ ops.op = "cache_stats" /\ ops.handle /\ ops.backend_live
      /\ ops.hits # None /\ ops.misses # None )
    => /\ ops.result.cache_enabled
       /\ IF ops.hits[1] + ops.misses[1] = 0
          THEN ops.result.hit_rate.num = 0
          ELSE ops.result.hit_rate.num * (ops.hits[1] + ops.misses[1])
                  = ops.hits[1] * ops.result.hit_rate.den

\* C26: TTSEngine.synthesize never raises: it returns None when the client
\* is not initialised and when the provider call raises, and the provider's
\* audio bytes when the call succeeds.
C26_EngineFailuresAreValues ==
    ops.op = "engine_synthesize"
    => /\ ~ops.raised
       /\ ops.result = IF ~ops.client \/ ops.provider = None
                       THEN None
                       ELSE ops.provider

\* a provider call of an initialised engine raised and None came back
C26_Witness ==
    /\ ops.op = "engine_synthesize"
    /\ ops.client /\ ops.provider = None
    /\ ops.result = None /\ ~ops.raised

C27_KeyLength71 ==
    \A d \in derived :
        d.fn = "_generate_key"
        => /\ SubSeq(KeyText(d.key), 1, 6) = <<"a", "u", "d", "i", "o", ":">>
           /\ Len(KeyText(d.key)) = 71

(***************************************************************************)
(* Properties of concurrent requests.                                      *)
(***************************************************************************)
\* C28: a request that missed answers MISS with the payload of its own
\* provider call, whatever other requests with the same parameters did in
\* the meantime, and its cache write, when it succeeds, leaves the key
\* holding that payload: the cache holds the payload of the last write.
C28_DuplicateMissesLastWriteWins ==
    [][ \A r \in Reqs :
          (req[r].pc = "populate" /\ req'[r].pc = "done")
          => /\ req'[r].resp.status = 200
             /\ req'[r].resp.xcache = "MISS"
             /\ req'[r].resp.body = req[r].audio_content
             /\ (redis_client /\ reachable)
                => RedisGet(store', CurrentKey(r)) = req[r].audio_content ]_vars

\* two requests with the same parameters both missed and both called the
\* provider; one has answered MISS and stored its payload, the other holds a
\* different payload and is about to store it
C28_Witness ==
    \E r1 \in Reqs : \E r2 \in Reqs :
        /\ r1 # r2
        /\ req[r1].params = req[r2].params
        /\ req[r1].pc = "done" /\ req[r1].resp.xcache = "MISS"
        /\ req[r1].nProv = 1 /\ req[r1].nWrite = 1
        /\ req[r2].pc = "populate" /\ req[r2].nProv = 1
        /\ req[r2].audio_content # req[r1].audio_content
        /\ RedisGet(store, CurrentKey(r1)) = req[r1].audio_content

\* the next step of the handler of request r, or its arrival
HandlerStep(r) ==
    \/ Start(r, "ip1", P1)
    \/ RateIncr(r)
    \/ RateExpire(r)
    \/ Probe(r)
    \/ Populate(r)

\* C29: while one request waits for its provider call, every other request
\* that is not itself waiting for the provider can take its next step (arrive,
\* make its rate-limit, cache read or cache write call): the pending call
\* does not hold the others back.
C29_ProviderWaitDoesNotBlock ==
    \A r1 \in Reqs : \A r2 \in Reqs \ {r1} :
        ( /\ req[r1].pc = "synth"
          /\ req[r2].pc \in {"idle", "rate", "rate_expire", "probe", "populate"}
          /\ phase = "serving"
          /\ Quiet
          /\ req[r2].pc = "idle" => Room("ip1") )
        => ENABLED HandlerStep(r2)

\* a request arrived while another was waiting for its provider call, and
\* has its terminal response (a cache hit, or a rate-limit refusal) while
\* that call is still pending
C29_Witness ==
    \E r1 \in Reqs : \E r2 \in Reqs :
        /\ req[r1].pc = "synth"
        /\ r1 \in req[r2].passed
        /\ req[r2].pc = "done"
        /\ req[r2].resp.xcache = "HIT"

\* the outcomes of a request that entered the handler
Outcomes(resp) ==
    { o \in {"RateLimited", "HIT", "MISS", "SynthesisError"} :
        \/ o = "RateLimited" /\ resp.status = 429
        \/ o = "HIT" /\ resp.status = 200 /\ resp.xcache = "HIT"
        \/ o = "MISS" /\ resp.status = 200 /\ resp.xcache = "MISS"
        \/ o = "SynthesisError" /\ resp.status = 500 }

\* C30: when every call that is issued returns or raises, a request that
\* entered the handler gets its response, the response is exactly one of
\* RateLimited, HIT, MISS and synthesis error, and the request has made at
\* most one rate-limit call, one cache read, one provider call and one cache
\* write.
C30_TerminatesInOneOutcome ==
    /\ [](\A r \in Reqs :
            /\ req[r].nRate <= 1 /\ req[r].nRead <= 1
            /\ req[r].nProv <= 1 /\ req[r].nWrite <= 1
            /\ (req[r].pc = "done" /\ req[r].nRate = 1)
               => Cardinality(Outcomes(req[r].resp)) = 1)
    /\ \A r \in Reqs :
         (req[r].pc \in {"rate", "rate_expire", "probe", "synth", "populate"})
           ~> (req[r].pc = "done")

\* a request has its MISS response after one call of each kind
C30_Witness ==
    \E r \in Reqs :
        /\ req[r].pc = "done"
        /\ Outcomes(req[r].resp) = {"MISS"}
        /\ req[r].nRate = 1 /\ req[r].nRead = 1
        /\ req[r].nProv = 1 /\ req[r].nWrite = 1

(***************************************************************************)
(* Properties of the rate-limit window.                                    *)
(***************************************************************************)
\* C31: the expiry of a client's counter is set only by the check_rate_limit
\* call whose increment returned 1: a step that is not the passing of time
\* changes the expiry of an existing counter only if it is the expire call of
\* such a request, and an increment creates the counter without expiry and
\* otherwise keeps the expiry it finds.
C31_ExpiryOnlyOnFirstCall ==
    [][ \A c \in Clients :
          LET k == RateKey(c) IN
          /\ (store[k] # None /\ store'[k] # None
                /\ store'[k][1].ttl # store[k][1].ttl)
             => \/ store' = RedisTick(store)
                \/ \E r \in Reqs :
                      /\ req[r].pc = "rate_expire" /\ req'[r].pc # "rate_expire"
                      /\ req[r].client = c
                      /\ req[r].count = 1
                      /\ store'[k][1].ttl = WindowTicks
          /\ (store[k] = None /\ store'[k] # None)
             => store'[k][1].ttl = NoExpiry ]_vars

\* the second call of the window has returned and the
\* expiry is the one the first call set, one tick older
C31_Witness ==
    \E r \in Reqs :
        /\ req[r].pc = "probe" /\ req[r].count = 2
        /\ store[RateKey(req[r].client)] # None
        /\ store[RateKey(req[r].client)][1].ttl = WindowTicks - 1

\* the smaller of two numbers
Min(a, b) == IF a <= b THEN a ELSE b

\* the check_rate_limit calls of client c that have incremented the counter
\* and not returned yet
InCheck(c) == { r \in Reqs : req[r].pc = "rate_expire" /\ req[r].client = c }

\* C32: as long as no rate-limit call of the client has failed, of the n
\* calls that have incremented the counter in the current window, however
\* they interleave, min(n, RATE_LIMIT_PER_MINUTE) return true: that many
\* have returned true or are still to return, and every call still to return
\* is one of them.
C32_ExactlyMinGranted ==
    \A c \in Clients :
        win[c].clean
        => /\ win[c].granted + Cardinality(InCheck(c))
                = Min(win[c].calls, RATE_LIMIT_PER_MINUTE)
           /\ \A r \in InCheck(c) : Allowed(req[r].count)

\* the first call of a window has incremented the counter and not returned;
\* meanwhile two more calls have come and gone, one allowed and one refused
C32_Witness ==
    \E c \in Clients :
        /\ win[c].clean
        /\ InCheck(c) # {}
        /\ win[c].calls = RATE_LIMIT_PER_MINUTE + 1
        /\ win[c].granted = RATE_LIMIT_PER_MINUTE - 1

(***************************************************************************)
(* Properties of overwriting and reading cache entries.                    *)
(***************************************************************************)
\* C33: a set of a key that already holds an entry leaves the key holding
\* the new payload and the full time-to-live, counted from this set: nothing
\* of the old payload or of the old expiry is left, and a get of the key
\* returns the new payload.
C33_SetReplacesEntry ==
    ( /\ cm.op = "set" /\ ~cm.failed /\ cm.old # None
      /\ written[cm.key] # None /\ written[cm.key][1].age = 0 )
    => /\ store[cm.key] = Some(Entry(written[cm.key][1].val, TtlTicks))
       /\ get_returns(RedisGet(store, cm.key)) = Some(written[cm.key][1].val)

\* an entry with one tick of its time-to-live gone has just been replaced by
\* a set of another payload
C33_Witness ==
    /\ cm.op = "set" /\ ~cm.failed /\ cm.old # None
    /\ cm.old[1].ttl < TtlTicks
    /\ written[cm.key] # None /\ written[cm.key][1].age = 0
    /\ cm.old[1].val # written[cm.key][1].val
    /\ store[cm.key][1].ttl = TtlTicks

\* a call of CacheManager.clear_all returns
ClearAllReturns == cm'.op = "clear_all" /\ cm' # cm

\* a backend call of the clear-cache endpoint returns
ClearCacheCalls == clr.pc \in {"idle", "delete"} /\ clr'.pc # clr.pc

\* C34: a step of CacheManager.clear_all or of the clear-cache endpoint
\* leaves the counter of every client, value and expiry, and the hit and miss
\* statistics as they were.
C34_ClearKeepsOtherFamilies ==
    [][ (ClearAllReturns \/ ClearCacheCalls)
        => /\ \A c \in Clients : store'[RateKey(c)] = store[RateKey(c)]
           /\ stats' = stats ]_vars

\* clear_all and the endpoint have each removed an audio entry while a
\* counter with an expiry and counted statistics exist
C34_Witness ==
    /\ cm.op = "clear_all" /\ ~cm.failed /\ cm.result >= 1
    /\ clr.pc = "done" /\ clr.removed >= 1
    /\ store[RateKey("ip1")] # None
    /\ store[RateKey("ip1")][1].ttl # NoExpiry
    /\ stats.hits + stats.misses > 0

(***************************************************************************)
(* Properties of the rate-limit counters.                                  *)
(***************************************************************************)
\* the value of the counter of client c, 0 when there is none
CounterValue(st, c) == IF st[RateKey(c)] = None THEN 0 ELSE st[RateKey(c)][1].val

\* C35: on a reachable backend the incr call of a request adds exactly 1 to
\* the counter of its client and leaves every other counter as it was, and
\* no later step of the request, whatever its outcome, changes the value of
\* any counter.
C35_OneIncrementPerRequest ==
    [][ \A r \in Reqs :
          /\ (req[r].pc = "rate" /\ req'[r].pc # "rate" /\ redis_client /\ reachable)
             => /\ CounterValue(store', req[r].client)
                     = CounterValue(store, req[r].client) + 1
                /\ \A c \in Clients \ {req[r].client} :
                      store'[RateKey(c)] = store[RateKey(c)]
          /\ (req[r].pc \in {"rate_expire", "probe", "synth", "populate"}
                /\ req'[r].pc # req[r].pc)
             => \A c \in Clients : CounterValue(store', c) = CounterValue(store, c)
      ]_vars

\* a request of one client was refused at count L + 1 while the counter of
\* the other client stands at 1
C35_Witness ==
    \E r \in Reqs :
        /\ req[r].pc = "done" /\ req[r].resp.status = 429
        /\ req[r].client = "ip1"
        /\ CounterValue(store, "ip1") = RATE_LIMIT_PER_MINUTE + 1
        /\ CounterValue(store, "ip2") = 1

\* C36: whenever no request of a client is inside check_rate_limit, the
\* counter of the client, if it exists, has an expiry.
C36_CounterHasExpiry ==
    \A c \in Clients :
        ( /\ ~(\E r \in Reqs : /\ req[r].client = c
                                /\ req[r].pc \in {"rate", "rate_expire"})
          /\ store[RateKey(c)] # None )
        => store[RateKey(c)][1].ttl # NoExpiry

(***************************************************************************)
(* Properties of what a cache hit returns.                                 *)
(***************************************************************************)
\* C37: a request answered with X-Cache: HIT gets the body of the last MISS
\* that was stored for its own parameters: the entry it reads was written by
\* a request with the same text, voice, speed, pitch and language.
C37_HitIsForSameParameters ==
    \A r \in Reqs :
        (req[r].pc = "done" /\ req[r].resp.xcache = "HIT")
        => /\ req[r].expect # None
           /\ req[r].resp.body = req[r].expect

(***************************************************************************)
(* Properties of a process that started without the backend.               *)
(***************************************************************************)
\* C38: a process that starts while the backend is unreachable has no
\* backend handle, and never gets one.  Without the handle every request is
\* admitted by check_rate_limit, issues no cache read and no cache write, is
\* never answered HIT or 429, has called the provider once when it ends (if
\* there is a provider client), and the backend holds no key, also after the
\* backend has become reachable again.
C38_NoHandleForLife ==
    /\ [][ /\ (phase = "boot" /\ phase' = "serving" /\ ~reachable) => ~redis_client'
           /\ (phase = "serving" /\ ~redis_client) => ~redis_client' ]_vars
    /\ []( (phase = "serving" /\ ~redis_client)
           => /\ \A k \in AllKeys : store[k] = None
              /\ \A r \in Reqs :
                    /\ req[r].rl \in {None, Some(TRUE)}
                    /\ req[r].nRead = 0 /\ req[r].nWrite = 0
                    /\ (req[r].pc = "done" /\ req[r].nRate = 1)
                       => /\ req[r].resp.xcache # "HIT"
                          /\ req[r].resp.status # 429
                          /\ tts_client => /\ req[r].nProv = 1
                                           /\ req[r].resp.status \in {200, 500} )

\* the backend has come back, the process still has no handle, and a request
\* was answered MISS after a provider call and no backend call
C38_Witness ==
    /\ phase = "serving" /\ ~redis_client /\ reachable
    /\ \E r \in Reqs :
          /\ req[r].pc = "done" /\ req[r].resp.xcache = "MISS"
          /\ req[r].rl = Some(TRUE)
          /\ req[r].nProv = 1 /\ req[r].nRead = 0 /\ req[r].nWrite = 0

\* a call of CacheManager.get returns
GetReturns == cm'.op = "get" /\ cm' # cm

\* the get call of get_cached_audio returns for some request
ProbeReturns == \E r \in Reqs : req[r].pc = "probe" /\ req'[r].pc # "probe"

\* C39: a step of CacheManager.get or of get_cached_audio leaves every audio
\* entry, payload and remaining time-to-live, as it was.
C39_ReadKeepsEntries ==
    [][ (GetReturns \/ ProbeReturns)
        => \A k \in AudioKeys : store'[k] = store[k] ]_vars

\* an entry with one tick of its time-to-live gone has been read by
\* CacheManager.get and by a request, which was answered HIT, and has still
\* the time-to-live it had
C39_Witness ==
    \E r \in Reqs :
        /\ req[r].pc = "done" /\ req[r].resp.xcache = "HIT"
        /\ cm.op = "get" /\ ~cm.failed /\ cm.result # None
        /\ cm.key = CurrentKey(r)
        /\ store[CurrentKey(r)] # None
        /\ store[CurrentKey(r)][1].ttl = TtlTicks - 1

====
